---- MODULE Spec2Model ----
(***************************************************************************)
(* Farm dashboard (src/app.py): three tables (Revenue, Expenditure,        *)
(* Classification) kept in one workbook file, add / edit / delete forms    *)
(* addressed by positional index, a lifetime profit/loss display and a     *)
(* date-filtered report.                                                   *)
(*                                                                         *)
(* Conventions of the model                                                *)
(*  - a table is a sequence of records; Python's 0-based index i is the    *)
(*    element i+1 of the sequence;                                         *)
(*  - a creation timestamp string 'YYYY-MM-DD HH:MM:SS' is the pair        *)
(*    <<day, tod>>; a string that is not in that format (a date typed by   *)
(*    hand into the workbook, 'YYYY-MM-DD') is the 1-tuple <<day>>;        *)
(*  - amounts are whole currency units, weights are tenths of a kilogram;  *)
(*  - a function that can raise returns [raised |-> BOOLEAN, value |-> _]. *)
(***************************************************************************)
EXTENDS Integers, Sequences, FiniteSets, TLC

VARIABLES store, fileState, editing, metrics, report, fault, lastOp, call

vars == <<store, fileState, editing, metrics, report, fault, lastOp, call>>

(***************************************************************************)
(* Bounds of the model                                                     *)
(***************************************************************************)
\* most records in the whole workbook
MaxRecords == 2
\* longest table handed to the functions checked on their own
MaxArg == 3

Sheets == <<"Revenue", "Expenditure", "Classification">>
SheetNames == {"Revenue", "Expenditure", "Classification"}
FinSheets == {"Revenue", "Expenditure"}
ReportTypes == {"Revenue", "Expenditure", "Classification", "All"}
Genders == {"Male", "Female", "Unknown"}

\* what the user may type or pick; number_input keeps only the entries >= min_value
TagEntries == {"", "Milk"}
AmountEntries == {-5, 15, 40}
NameEntries == {"", "Cow"}
\* the edit forms take any text; the ones tried here are the non-empty ones
NewTagEntries == TagEntries \ {""}
NewNameEntries == NameEntries \ {""}
GenderEntries == {"Female"}
BreedEntries == {"Jersey"}
CountEntries == {-1, 0}
WeightEntries == {-1, 35}
VaccinationEntries == {1}
DetailsEntries == {"", "sick"}
\* datetime.now() at the moment of an add
Nows == {[day |-> 1, tod |-> 0], [day |-> 2, tod |-> 1]}
\* the (start, end) pairs the report panel's two date inputs may hold
ReportRanges == {<<1, 2>>, <<2, 2>>, <<2, 1>>}
\* days and times of day of the records handed to the functions checked on their own
ArgDays == {1, 2, 3}
ArgTods == {0, 1}
ArgAmounts == {0, 15, 40}

NaN == "<NaN>"
EmptyCell == "<empty cell>"
None == "<None>"

(***************************************************************************)
(* Widgets and formatting                                                  *)
(***************************************************************************)
\* the widget without its lower limit
number_input_unbounded(min_value, entries) == entries

\* st.number_input(min_value=...): a value under the limit cannot be entered
number_input(min_value, entries) == {x \in entries : x >= min_value}

\* datetime.now().strftime("%Y-%m-%d %H:%M:%S")
strftime(now) == <<now.day, now.tod>>

\* pd.to_datetime(s, format='%Y-%m-%d %H:%M:%S'):  raises on any other shape
to_datetime(s) ==
    IF Len(s) = 2
    THEN [raised |-> FALSE, value |-> [day |-> s[1], tod |-> s[2]]]
    ELSE [raised |-> TRUE, value |-> [day |-> 0, tod |-> 0]]

\* f"{x:,.2f}"
Money(x) ==
    [negative |-> x < 0,
     thousands |-> (IF x < 0 THEN -x ELSE x) \div 1000,
     units |-> (IF x < 0 THEN -x ELSE x) % 1000,
     decimals |-> <<0, 0>>]

(***************************************************************************)
(* The workbook: to_excel / read_excel                                     *)
(***************************************************************************)
\* to_excel: an empty string and a missing value both leave the cell empty
WriteText(v) == IF v = "" \/ v = NaN THEN EmptyCell ELSE v
\* read_excel: an empty cell is read back as NaN
ReadText(c) == IF c = EmptyCell THEN NaN ELSE c

IsFin(sheet_name) == sheet_name \in FinSheets

WriteRow(sheet_name, r) ==
    IF IsFin(sheet_name)
    THEN [r EXCEPT !.Tag = WriteText(@)]
    ELSE [r EXCEPT !.Name = WriteText(@), !.Breed = WriteText(@),
                   !.Details = WriteText(@)]

ReadRow(sheet_name, r) ==
    IF IsFin(sheet_name)
    THEN [r EXCEPT !.Tag = ReadText(@)]
    ELSE [r EXCEPT !.Name = ReadText(@), !.Breed = ReadText(@),
                   !.Details = ReadText(@)]

EmptyStore == [s \in SheetNames |-> <<>>]

\* load_data on a readable workbook
load_data(file, sheet_name) ==
    [i \in 1..Len(file[sheet_name]) |-> ReadRow(sheet_name, file[sheet_name][i])]

\* save_data: the whole sheet is replaced
save_data(file, df, sheet_name) ==
    [file EXCEPT ![sheet_name] = [i \in 1..Len(df) |-> WriteRow(sheet_name, df[i])]]

add_record(file, sheet_name, record) ==
    save_data(file, Append(load_data(file, sheet_name), record), sheet_name)

\* df.drop(index) raises KeyError for a label that is not there: nothing is saved
delete_record(file, sheet_name, index) ==
    LET df == load_data(file, sheet_name) IN
    IF index >= 0 /\ index < Len(df)
    THEN save_data(file,
                   [j \in 1..(Len(df) - 1) |-> IF j <= index THEN df[j] ELSE df[j + 1]],
                   sheet_name)
    ELSE file

\* the same writing to the label after index
edit_record_next_label(file, sheet_name, index, updated_record) ==
    LET df == load_data(file, sheet_name) IN
    IF index + 1 >= 0 /\ index + 1 < Len(df)
    THEN save_data(file, [df EXCEPT ![index + 2] = updated_record], sheet_name)
    ELSE save_data(file, Append(df, updated_record), sheet_name)

\* df.loc[index] = updated_record: replaces the row labelled index, and
\* appends a row when no row has that label
edit_record(file, sheet_name, index, updated_record) ==
    LET df == load_data(file, sheet_name) IN
    IF index >= 0 /\ index < Len(df)
    THEN save_data(file, [df EXCEPT ![index + 1] = updated_record], sheet_name)
    ELSE save_data(file, Append(df, updated_record), sheet_name)

(***************************************************************************)
(* Aggregator                                                              *)
(***************************************************************************)
RECURSIVE ColumnSum(_)
\* df["Amount"].sum()
ColumnSum(df) == IF df = <<>> THEN 0 ELSE Head(df).Amount + ColumnSum(Tail(df))

Totals(total_revenue, total_expenditure) ==
    <<total_revenue - total_expenditure, total_revenue, total_expenditure>>

\* the same without the try/except: an unreadable workbook raises out of it
calculate_profit_loss_unguarded(file, readable) ==
    IF readable
    THEN [raised |-> FALSE,
          value |-> Totals(ColumnSum(load_data(file, "Revenue")),
                           ColumnSum(load_data(file, "Expenditure")))]
    ELSE [raised |-> TRUE, value |-> <<0, 0, 0>>]

\* the same with the subtraction turned round
calculate_profit_loss_swapped(file, readable) ==
    IF readable
    THEN [raised |-> FALSE,
          value |-> <<ColumnSum(load_data(file, "Expenditure"))
                          - ColumnSum(load_data(file, "Revenue")),
                      ColumnSum(load_data(file, "Revenue")),
                      ColumnSum(load_data(file, "Expenditure"))>>]
    ELSE [raised |-> FALSE, value |-> <<0, 0, 0>>]

\* calculate_profit_loss: load_data raises on an unreadable workbook and the
\* bare except turns that into (0, 0, 0)
calculate_profit_loss(file, readable) ==
    IF readable
    THEN LET df_revenue == load_data(file, "Revenue")
             df_expenditure == load_data(file, "Expenditure")
             total_revenue == IF df_revenue # <<>> THEN ColumnSum(df_revenue) ELSE 0
             total_expenditure ==
                 IF df_expenditure # <<>> THEN ColumnSum(df_expenditure) ELSE 0
         IN [raised |-> FALSE, value |-> Totals(total_revenue, total_expenditure)]
    ELSE [raised |-> FALSE, value |-> <<0, 0, 0>>]

(***************************************************************************)
(* Date range filter                                                       *)
(***************************************************************************)
\* the same comparing the whole timestamp with the end date at midnight
filter_data_by_date_midnight(df, start_date, end_date) ==
    IF df = <<>> THEN [raised |-> FALSE, value |-> df]
    ELSE IF \E i \in 1..Len(df) : to_datetime(df[i].Date).raised
    THEN [raised |-> TRUE, value |-> <<>>]
    ELSE LET Keep(r) ==
                 LET t == to_datetime(r.Date).value IN
                 /\ t.day >= start_date
                 /\ (t.day < end_date \/ (t.day = end_date /\ t.tod = 0))
         IN [raised |-> FALSE, value |-> SelectSeq(df, Keep)]

\* filter_data_by_date: every Date is parsed first (one bad string raises),
\* then the rows whose date lies in [start_date, end_date] are kept
filter_data_by_date(df, start_date, end_date) ==
    IF df = <<>> THEN [raised |-> FALSE, value |-> df]
    ELSE IF \E i \in 1..Len(df) : to_datetime(df[i].Date).raised
    THEN [raised |-> TRUE, value |-> <<>>]
    ELSE LET Date_parsed(r) == to_datetime(r.Date).value.day
             Keep(r) == Date_parsed(r) >= start_date /\ Date_parsed(r) <= end_date
         IN [raised |-> FALSE, value |-> SelectSeq(df, Keep)]

(***************************************************************************)
(* Report composer                                                         *)
(***************************************************************************)
NoReport ==
    [status |-> "none", type |-> None, start |-> 0, end |-> 0,
     summary |-> <<0, 0, 0>>, sections |-> <<>>, loads |-> 0, filterCalls |-> 0]

Title(sheet_name) ==
    CASE sheet_name = "Revenue" -> "Revenue Records"
      [] sheet_name = "Expenditure" -> "Expenditure Records"
      [] OTHER -> "Classification Records"

Header(sheet_name) ==
    IF IsFin(sheet_name)
    THEN <<"Name", "Amount", "Date">>
    ELSE <<"Name", "Gender", "Breed", "Weight (kg)", "New Borns", "Dead Count",
           "Vaccination Date">>

RowOf(sheet_name, row) ==
    IF IsFin(sheet_name)
    THEN <<row.Tag, Money(row.Amount), row.Date>>
    ELSE <<row.Name, row.Gender, row.Breed, row.Weight, row.NewBorns,
           row.DeadCount, row.VaccinationDate>>

\* the same sections, built in the opposite order
RequestedReversed(report_type) ==
    LET Wanted(s) == report_type \in {s, "All"}
        picked == SelectSeq(Sheets, Wanted)
    IN [i \in 1..Len(picked) |-> picked[Len(picked) + 1 - i]]

\* the three "if report_type in [X, 'All']" blocks, in the order they are written
Requested(report_type) ==
    LET Wanted(s) == report_type \in {s, "All"}
    IN SelectSeq(Sheets, Wanted)

\* the section built without looking whether anything was left by the filter
SectionAlwaysTable(sheet_name, filtered) ==
    [title |-> Title(sheet_name), kind |-> "table",
     data |-> <<Header(sheet_name)>>
              \o [i \in 1..Len(filtered) |-> RowOf(sheet_name, filtered[i])]]

\* one section: a table (header row, then one row per record) when the
\* filtered frame is not empty, the "No ... records found" paragraph otherwise
Section(sheet_name, filtered) ==
    IF filtered # <<>>
    THEN [title |-> Title(sheet_name), kind |-> "table",
          data |-> <<Header(sheet_name)>>
                   \o [i \in 1..Len(filtered) |-> RowOf(sheet_name, filtered[i])]]
    ELSE [title |-> Title(sheet_name), kind |-> "placeholder", data |-> <<>>]

\* the summary computed from the rows of the report's period only
SummaryOfPeriod(file, readable, start_date, end_date) ==
    LET InPeriod(sheet_name) ==
            LET f == filter_data_by_date(load_data(file, sheet_name), start_date, end_date)
            IN IF f.raised THEN <<>> ELSE f.value
    IN Totals(ColumnSum(InPeriod("Revenue")), ColumnSum(InPeriod("Expenditure")))

\* the "Financial Summary" paragraph: calculate_profit_loss(), whatever the period
Summary(file, readable, start_date, end_date) ==
    calculate_profit_loss(file, readable).value

\* create_pdf_report: the sections are built in order; the first filter that
\* raises ends the run and nothing is returned
create_pdf_report(file, report_type, start_date, end_date) ==
    LET req == Requested(report_type)
        res == [i \in 1..Len(req) |->
                   filter_data_by_date(load_data(file, req[i]), start_date, end_date)]
        bad == {i \in 1..Len(req) : res[i].raised}
        first == CHOOSE i \in bad : \A j \in bad : i <= j
    IN IF bad # {}
       THEN [raised |-> TRUE,
             value |-> [NoReport EXCEPT !.status = "crashed", !.type = report_type,
                                        !.start = start_date, !.end = end_date,
                                        !.loads = first, !.filterCalls = first]]
       ELSE [raised |-> FALSE,
             value |-> [status |-> "ok", type |-> report_type,
                        start |-> start_date, end |-> end_date,
                        summary |-> Summary(file, TRUE, start_date, end_date),
                        sections |-> [i \in 1..Len(req) |-> Section(req[i], res[i].value)],
                        loads |-> Len(req), filterCalls |-> Len(req)]]

\* the panel's check that stands in front of the "Generate Report" button,
\* without the comparison
RangeAcceptedAlways(start_date, end_date) == TRUE

\* the report panel: "if start_date > end_date: st.error(...)  else: button"
RangeAccepted(start_date, end_date) == ~(start_date > end_date)

(***************************************************************************)
(* Session state and the page                                              *)
(***************************************************************************)
NoIndex == 0 - 1
NotEditing == [sheet |-> None, index |-> NoIndex]
NoRecord == [none |-> TRUE]
NoCall == [fn |-> None]

Op(op, sheet_name, index, record, applied) ==
    [op |-> op, sheet |-> sheet_name, index |-> index, record |-> record,
     applied |-> applied]

Total(file) == Len(file["Revenue"]) + Len(file["Expenditure"]) + Len(file["Classification"])

Readable == fileState # "unreadable"

\* the edit form's conditions without the comparison with the table's length
EditFormShownUnguarded(df, sheet_name, state) ==
    /\ df # <<>>
    /\ state.sheet = sheet_name
    /\ state.index # NoIndex

\* "if not df.empty", "if editing['sheet'] == X and editing['index'] is not
\* None", "if edit_index < len(df)"
EditFormShown(df, sheet_name, state) ==
    /\ df # <<>>
    /\ state.sheet = sheet_name
    /\ state.index # NoIndex
    /\ state.index < Len(df)

\* "for i, row in df.iterrows()": row i has its edit and delete buttons
RowShown(df, index) == index >= 0 /\ index < Len(df)

\* what every script run does after its handler: the page is drawn again,
\* with the profit/loss display on top; a report lives for one run only
Rendered(file) ==
    /\ fileState' = "ok"
    /\ metrics' = calculate_profit_loss(file, TRUE).value
    /\ call' = call

Init ==
    /\ store = EmptyStore
    /\ fileState = "ok"
    /\ editing = NotEditing
    /\ metrics = <<0, 0, 0>>
    /\ report = NoReport
    /\ fault = "none"
    /\ lastOp = Op("start", None, NoIndex, NoRecord, FALSE)
    /\ call = NoCall

(***************************************************************************)
(* Add forms                                                               *)
(***************************************************************************)
Room(sheet_name) == Total(store) < MaxRecords

\* add_revenue / add_expenditure: "if submitted and tag"
AddFinancial(sheet_name, tag, amount, now) ==
    LET record == [Tag |-> tag, Amount |-> amount, Date |-> strftime(now)] IN
    /\ Readable
    /\ Room(sheet_name)
    /\ store' = IF tag # "" THEN add_record(store, sheet_name, record) ELSE store
    /\ lastOp' = Op("add", sheet_name, NoIndex,
                    IF tag # "" THEN record ELSE NoRecord, tag # "")
    /\ report' = NoReport
    /\ fault' = "none"
    /\ UNCHANGED editing
    /\ Rendered(store')

\* add_classification: "if submitted and name"
AddClassification(name, gender, breed, new_borns, weight, dead_count, vaccination_date, details, now) ==
    LET record == [Name |-> name, Gender |-> gender, Breed |-> breed,
                   NewBorns |-> new_borns, Weight |-> weight,
                   DeadCount |-> dead_count, VaccinationDate |-> vaccination_date,
                   Details |-> details, Date |-> strftime(now)] IN
    /\ Readable
    /\ Room("Classification")
    /\ store' = IF name # "" THEN add_record(store, "Classification", record) ELSE store
    /\ lastOp' = Op("add", "Classification", NoIndex,
                    IF name # "" THEN record ELSE NoRecord, name # "")
    /\ report' = NoReport
    /\ fault' = "none"
    /\ UNCHANGED editing
    /\ Rendered(store')

(***************************************************************************)
(* Per-row buttons                                                         *)
(***************************************************************************)
\* the edit button of row index
SelectEdit(sheet_name, index) ==
    /\ Readable
    /\ RowShown(load_data(store, sheet_name), index)
    /\ editing' = [sheet |-> sheet_name, index |-> index]
    /\ lastOp' = Op("select", sheet_name, index, NoRecord, TRUE)
    /\ report' = NoReport
    /\ fault' = "none"
    /\ UNCHANGED store
    /\ Rendered(store)

\* a click on the delete button of row index; on a page drawn from a longer
\* table the button is not there any more and the click does nothing
Delete(sheet_name, index) ==
    LET shown == RowShown(load_data(store, sheet_name), index) IN
    /\ Readable
    /\ store' = IF shown THEN delete_record(store, sheet_name, index) ELSE store
    /\ lastOp' = Op("delete", sheet_name, index, NoRecord, shown)
    /\ report' = NoReport
    /\ fault' = "none"
    /\ UNCHANGED editing
    /\ Rendered(store')

(***************************************************************************)
(* Edit forms                                                              *)
(***************************************************************************)
\* current_record['Date'] of the row being edited (df.iloc[edit_index])
CurrentDate(sheet_name) ==
    LET df == load_data(store, sheet_name) IN
    IF editing.index >= 0 /\ editing.index < Len(df)
    THEN df[editing.index + 1].Date
    ELSE <<>>

\* a press on "Save Changes" (saving, with the record the form holds) or on
\* "Cancel" of the edit form of sheet_name.  The form exists only under
\* EditFormShown; df.iloc[edit_index] raises IndexError past the end of the
\* frame.
EditForm(sheet_name, op, saving, updated_record) ==
    LET df == load_data(store, sheet_name)
        edit_index == editing.index
        shown == EditFormShown(df, sheet_name, editing)
        inside == edit_index >= 0 /\ edit_index < Len(df)
    IN
    /\ Readable
    /\ editing.sheet = sheet_name
    /\ lastOp' = Op(op, sheet_name, edit_index,
                    IF saving /\ shown /\ inside THEN updated_record ELSE NoRecord,
                    shown /\ inside)
    /\ report' = NoReport
    /\ IF ~shown
       THEN /\ UNCHANGED <<store, editing>>
            /\ fault' = "none"
       ELSE IF ~inside
       THEN /\ UNCHANGED <<store, editing>>
            /\ fault' = "iloc"
       ELSE /\ store' = IF saving
                        THEN edit_record(store, sheet_name, edit_index, updated_record)
                        ELSE store
            /\ editing' = NotEditing
            /\ fault' = "none"
    /\ Rendered(store')

\* edit_revenue_form / edit_expenditure_form, "Save Changes"
SaveEditFinancial(sheet_name, new_tag, new_amount) ==
    EditForm(sheet_name, "edit", TRUE,
             [Tag |-> new_tag, Amount |-> new_amount,
              Date |-> CurrentDate(sheet_name)])

\* edit_classification_form, "Save Changes"
SaveEditClassification(new_name, new_gender, new_breed, new_new_borns, new_weight, new_dead_count, new_vaccination_date, new_details) ==
    EditForm("Classification", "edit", TRUE,
             [Name |-> new_name, Gender |-> new_gender, Breed |-> new_breed,
              NewBorns |-> new_new_borns, Weight |-> new_weight,
              DeadCount |-> new_dead_count,
              VaccinationDate |-> new_vaccination_date,
              Details |-> new_details, Date |-> CurrentDate("Classification")])

\* "Cancel" of any of the three edit forms
CancelEdit(sheet_name) == EditForm(sheet_name, "cancel", FALSE, NoRecord)

(***************************************************************************)
(* Report panel and plain page loads                                       *)
(***************************************************************************)
\* the panel with its three inputs and a press on "Generate Report"; with
\* start after end the error is shown in place of the button
GenerateReport(report_type, start_date, end_date) ==
    LET made == create_pdf_report(store, report_type, start_date, end_date) IN
    /\ Readable
    /\ lastOp' = Op("report", report_type, NoIndex, NoRecord,
                    RangeAccepted(start_date, end_date))
    /\ IF RangeAccepted(start_date, end_date)
       THEN /\ report' = made.value
            /\ fault' = IF made.raised THEN "filter_data_by_date" ELSE "none"
       ELSE /\ report' = [NoReport EXCEPT !.status = "rejected",
                                          !.type = report_type,
                                          !.start = start_date, !.end = end_date]
            /\ fault' = "none"
    /\ UNCHANGED <<store, editing>>
    /\ Rendered(store)

\* the page is loaded again with nothing pressed
Refresh ==
    /\ Readable
    /\ lastOp' = Op("refresh", None, NoIndex, NoRecord, TRUE)
    /\ report' = NoReport
    /\ fault' = "none"
    /\ UNCHANGED <<store, editing>>
    /\ Rendered(store)

Next ==
    \/ \E s \in FinSheets, tag \in TagEntries,
          amount \in number_input(0, AmountEntries), now \in Nows :
          AddFinancial(s, tag, amount, now)
    \/ \E name \in NameEntries, gender \in GenderEntries, breed \in BreedEntries,
          new_borns \in number_input(0, CountEntries),
          weight \in number_input(0, WeightEntries),
          dead_count \in number_input(0, CountEntries),
          vaccination_date \in VaccinationEntries, details \in DetailsEntries,
          now \in Nows :
          AddClassification(name, gender, breed, new_borns, weight, dead_count,
                            vaccination_date, details, now)
    \/ \E s \in SheetNames, i \in 0..(MaxRecords - 1) : SelectEdit(s, i)
    \/ \E s \in SheetNames, i \in 0..(MaxRecords - 1) : Delete(s, i)
    \/ \E s \in FinSheets, new_tag \in NewTagEntries,
          new_amount \in number_input(0, AmountEntries) :
          SaveEditFinancial(s, new_tag, new_amount)
    \/ \E new_name \in NewNameEntries, new_gender \in GenderEntries,
          new_breed \in BreedEntries,
          new_new_borns \in number_input(0, CountEntries),
          new_weight \in number_input(0, WeightEntries),
          new_dead_count \in number_input(0, CountEntries),
          new_vaccination_date \in VaccinationEntries,
          new_details \in DetailsEntries :
          SaveEditClassification(new_name, new_gender, new_breed, new_new_borns,
                                 new_weight, new_dead_count, new_vaccination_date,
                                 new_details)
    \/ \E s \in SheetNames : CancelEdit(s)
    \/ \E t \in ReportTypes, range \in ReportRanges :
          GenerateReport(t, range[1], range[2])
    \/ Refresh

Spec == Init /\ [][Next]_vars

(***************************************************************************)
(* The workbook file outside the program: it can be locked or damaged,     *)
(* removed, or edited by hand                                              *)
(***************************************************************************)
\* the file becomes locked or corrupt: every read of it raises from now on
Outage ==
    /\ fileState = "ok"
    /\ fileState' = "unreadable"
    /\ lastOp' = Op("env", None, NoIndex, NoRecord, TRUE)
    /\ UNCHANGED <<store, editing, metrics, report, fault, call>>

\* the lock is released
Recover ==
    /\ fileState = "unreadable"
    /\ fileState' = "ok"
    /\ lastOp' = Op("env", None, NoIndex, NoRecord, TRUE)
    /\ UNCHANGED <<store, editing, metrics, report, fault, call>>

\* the file is removed; the next run's "if not os.path.exists(EXCEL_FILE)"
\* writes a workbook with three empty sheets
Remove ==
    /\ fileState = "ok"
    /\ Total(store) > 0
    /\ fileState' = "missing"
    /\ store' = EmptyStore
    /\ lastOp' = Op("env", None, NoIndex, NoRecord, TRUE)
    /\ UNCHANGED <<editing, metrics, report, fault, call>>

\* a script run on an unreadable workbook: the profit/loss display comes
\* first, then the first load_data of the page raises and ends the run
CrashedRun ==
    LET shown == calculate_profit_loss(store, FALSE) IN
    /\ fileState = "unreadable"
    /\ metrics' = IF shown.raised THEN metrics ELSE shown.value
    /\ fault' = IF shown.raised THEN "calculate_profit_loss" ELSE "load_data"
    /\ report' = NoReport
    /\ lastOp' = Op("run", None, NoIndex, NoRecord, ~shown.raised)
    /\ UNCHANGED <<store, fileState, editing, call>>

WellFormed(s) == ~to_datetime(s).raised

Tampered(file) ==
    \E s \in SheetNames : \E i \in 1..Len(file[s]) : ~WellFormed(file[s][i].Date)

\* somebody retypes the Date cell of one row as a plain date; at most one
\* row of the workbook is treated so
Tamper(sheet_name, index) ==
    /\ fileState = "ok"
    /\ index < Len(store[sheet_name])
    /\ ~Tampered(store)
    /\ store' = [store EXCEPT ![sheet_name][index + 1].Date = <<@[1]>>]
    /\ lastOp' = Op("env", None, NoIndex, NoRecord, TRUE)
    /\ UNCHANGED <<fileState, editing, metrics, report, fault, call>>

NextEnv ==
    \/ Next
    \/ Outage
    \/ Recover
    \/ Remove
    \/ CrashedRun
    \/ \E s \in SheetNames, i \in 0..(MaxRecords - 1) : Tamper(s, i)

SpecEnv == Init /\ [][NextEnv]_vars

(***************************************************************************)
(* The filter and the aggregator on their own, on arguments of any shape   *)
(***************************************************************************)
SeqsUpTo(S, n) == UNION {[1..k -> S] : k \in 0..n}

ArgDates ==
    {<<d, t>> : d \in ArgDays, t \in ArgTods} \cup {<<2>>}

ArgFrames ==
    SeqsUpTo({[Tag |-> "Milk", Amount |-> 15, Date |-> d] : d \in ArgDates}, MaxArg)

ArgTables ==
    SeqsUpTo({[Tag |-> "Milk", Amount |-> a, Date |-> <<1, 0>>] : a \in ArgAmounts},
             MaxArg)

FilterCalls ==
    {[fn |-> "filter_data_by_date", df |-> df, start |-> a, end |-> b,
      done |-> FALSE, result |-> [raised |-> FALSE, value |-> <<>>]] :
        df \in ArgFrames, a \in ArgDays, b \in ArgDays}

AggregateCalls ==
    {[fn |-> "calculate_profit_loss",
      file |-> [EmptyStore EXCEPT !["Revenue"] = r, !["Expenditure"] = e],
      readable |-> b,
      done |-> FALSE, result |-> [raised |-> FALSE, value |-> <<0, 0, 0>>]] :
        r \in ArgTables, e \in ArgTables, b \in BOOLEAN}

InitFn ==
    /\ store = EmptyStore
    /\ fileState = "ok"
    /\ editing = NotEditing
    /\ metrics = <<0, 0, 0>>
    /\ report = NoReport
    /\ fault = "none"
    /\ lastOp = Op("start", None, NoIndex, NoRecord, FALSE)
    /\ call \in FilterCalls \cup AggregateCalls

ApplyFilter ==
    /\ call.fn = "filter_data_by_date"
    /\ ~call.done
    /\ call' = [call EXCEPT !.done = TRUE,
                            !.result = filter_data_by_date(call.df, call.start, call.end)]
    /\ UNCHANGED <<store, fileState, editing, metrics, report, fault, lastOp>>

ApplyAggregate ==
    /\ call.fn = "calculate_profit_loss"
    /\ ~call.done
    /\ call' = [call EXCEPT !.done = TRUE,
                            !.result = calculate_profit_loss(call.file, call.readable)]
    /\ UNCHANGED <<store, fileState, editing, metrics, report, fault, lastOp>>

NextFn == ApplyFilter \/ ApplyAggregate

SpecFn == InitFn /\ [][NextFn]_vars

(***************************************************************************)
(* Properties.  What they compare the program with is written here         *)
(* directly over the tables, not with the program's own functions.         *)
(***************************************************************************)
RECURSIVE SumFirst(_, _)
SumFirst(table, n) == IF n = 0 THEN 0 ELSE SumFirst(table, n - 1) + table[n].Amount

LifetimeTotals(file) ==
    LET r == SumFirst(file["Revenue"], Len(file["Revenue"]))
        e == SumFirst(file["Expenditure"], Len(file["Expenditure"]))
    IN <<r - e, r, e>>

InPeriod(table, a, b) ==
    {i \in 1..Len(table) :
        Len(table[i].Date) = 2 /\ a <= table[i].Date[1] /\ table[i].Date[1] <= b}

\* the elements of table at the positions idx, in the order of the positions
Pick(table, idx) ==
    [k \in 1..Cardinality(idx) |->
        table[CHOOSE i \in idx : Cardinality({j \in idx : j <= i}) = k]]

AllWellFormed(table) == \A i \in 1..Len(table) : Len(table[i].Date) = 2

SectionTitle ==
    [s \in SheetNames |->
        IF s = "Revenue" THEN "Revenue Records"
        ELSE IF s = "Expenditure" THEN "Expenditure Records"
        ELSE "Classification Records"]

Titles(sections) == [k \in 1..Len(sections) |-> sections[k].title]

Asked(sheet_name) == report.type \in {sheet_name, "All"}

FilterDone == call.fn = "filter_data_by_date" /\ call.done

\* C1: for start <= end the filter returns exactly the records whose
\* timestamp's date lies in [start, end], both ends included, in their input
\* order; an empty frame comes back empty.
C1_FilterExact ==
    (FilterDone /\ call.start <= call.end /\ AllWellFormed(call.df))
        => /\ ~call.result.raised
           /\ call.result.value = Pick(call.df, InPeriod(call.df, call.start, call.end))

\* a frame of three rows of which the first is dropped and two are kept, one
\* of them stamped later than midnight on the end date itself
C1_Witness ==
    /\ FilterDone /\ call.start < call.end /\ AllWellFormed(call.df)
    /\ Len(call.df) = 3
    /\ Len(call.result.value) = 2
    /\ call.result.value = Tail(call.df)
    /\ call.df[3].Date = <<call.end, 1>>

\* C2: a request with start after end is turned down before anything is
\* loaded or filtered for the report: no filter call, no load, no report.
C2_InvalidRangeRejected ==
    (lastOp.op = "report" /\ report.start > report.end)
        => /\ report.status = "rejected"
           /\ report.filterCalls = 0
           /\ report.loads = 0
           /\ report.sections = <<>>
           /\ fault = "none"

C2_Witness ==
    /\ lastOp.op = "report" /\ report.start > report.end
    /\ report.status = "rejected"
    /\ report.type = "All"
    /\ Total(store) = MaxRecords

\* C3: a report for "All" has exactly the three sections Revenue,
\* Expenditure, Classification in that order whichever are empty; a report
\* for one category has exactly that category's section.
C3_SectionOrder ==
    (report.status = "ok")
        => Titles(report.sections) =
               IF report.type = "All"
               THEN <<"Revenue Records", "Expenditure Records", "Classification Records">>
               ELSE <<SectionTitle[report.type]>>

C3_Witness ==
    /\ report.status = "ok" /\ report.type = "All"
    /\ Len(report.sections) = 3
    /\ report.sections[1].kind = "placeholder"
    /\ report.sections[2].kind = "table"

\* C4: a requested category with no record in the period gets the
\* placeholder and no table, and every table of a report has at least one
\* data row under its header row.
C4_NoEmptyTable ==
    (report.status = "ok")
        => /\ \A s \in SheetNames :
                (Asked(s) /\ InPeriod(store[s], report.start, report.end) = {})
                    => \E k \in 1..Len(report.sections) :
                          /\ report.sections[k].title = SectionTitle[s]
                          /\ report.sections[k].kind = "placeholder"
                          /\ report.sections[k].data = <<>>
           /\ \A k \in 1..Len(report.sections) :
                /\ report.sections[k].kind \in {"table", "placeholder"}
                /\ report.sections[k].kind = "table" => Len(report.sections[k].data) >= 2

\* one revenue record, dated outside the period: placeholder, not a table
C4_Witness ==
    /\ report.status = "ok" /\ report.type = "Revenue"
    /\ Len(store["Revenue"]) = 1
    /\ InPeriod(store["Revenue"], report.start, report.end) = {}
    /\ report.sections[1].kind = "placeholder"

\* C5: calculate_profit_loss returns (revenue - expenditure, revenue,
\* expenditure), each total the sum of Amount over the whole table; an empty
\* table counts 0, two empty tables give (0, 0, 0).
C5_Aggregate ==
    (call.fn = "calculate_profit_loss" /\ call.done /\ call.readable)
        => /\ ~call.result.raised
           /\ call.result.value = LifetimeTotals(call.file)
           /\ (call.file["Revenue"] = <<>> /\ call.file["Expenditure"] = <<>>)
                  => call.result.value = <<0, 0, 0>>

\* a loss: two revenue records that sum to less than the expenditure
C5_Witness ==
    /\ call.fn = "calculate_profit_loss" /\ call.done /\ call.readable
    /\ Len(call.file["Revenue"]) = 2
    /\ call.result.value[2] = 30
    /\ call.result.value[3] = 80
    /\ call.result.value[1] = 0 - 50

\* C6: the summary of a report is the lifetime aggregate of the two whole
\* tables, the same for every period and category, and equal to the totals
\* the dashboard shows, also when the sections are empty.
C6_SummaryUnfiltered ==
    (report.status = "ok")
        => /\ report.summary = LifetimeTotals(store)
           /\ report.summary = metrics

\* revenue on record, none of it in the period: the section is the
\* placeholder and the summary still shows the revenue
C6_Witness ==
    /\ report.status = "ok" /\ report.type = "Revenue"
    /\ report.sections[1].kind = "placeholder"
    /\ report.summary[2] > 0
    /\ report.summary[3] > 0

\* C7: with a record whose timestamp is not in the fixed format in a
\* requested table, the report is still made: that record is left out, the
\* well-formed records of the period are all in their section, and the run
\* does not end in an error.
C7_MalformedSkipped ==
    (/\ lastOp.op = "report" /\ lastOp.applied
     /\ \E s \in SheetNames : Asked(s) /\ ~AllWellFormed(store[s]))
        => /\ fault = "none"
           /\ report.status = "ok"
           /\ \A s \in SheetNames :
                Asked(s) =>
                    \E k \in 1..Len(report.sections) :
                        /\ report.sections[k].title = SectionTitle[s]
                        /\ Len(report.sections[k].data) =
                               LET n == Cardinality(InPeriod(store[s], report.start,
                                                             report.end))
                               IN IF n = 0 THEN 0 ELSE n + 1

\* C8: an edit or a delete aimed at an index at or past the end of the
\* table is caught: no record changes, none is added or removed, and the run
\* does not end in an error.
C8_OutOfRangeGuarded ==
    [][(/\ lastOp'.op \in {"edit", "delete"}
        /\ lastOp'.index >= Len(store[lastOp'.sheet]))
          => (store' = store /\ fault' = "none")]_vars

\* a stale selection: "Save Changes" for index 1 of a table that a delete
\* has meanwhile cut down to one record
C8_Witness ==
    /\ lastOp.op = "edit" /\ ~lastOp.applied
    /\ editing.sheet = lastOp.sheet
    /\ editing.index = lastOp.index
    /\ store[lastOp.sheet] # <<>>
    /\ lastOp.index >= Len(store[lastOp.sheet])

\* C9: on an unreadable workbook calculate_profit_loss hands back zeros and
\* the page is drawn instead of ending in an error.
C9_UnreadableStoreNoCrash ==
    (fileState = "unreadable" /\ lastOp.op = "run")
        => /\ metrics = <<0, 0, 0>>
           /\ fault = "none"

\* C10: after an add, the loaded table is the table loaded before with the
\* added record, field for field, as its new last element.
C10_AddThenLoad ==
    [][(lastOp'.op = "add" /\ lastOp'.applied)
          => load_data(store', lastOp'.sheet)
                 = Append(load_data(store, lastOp'.sheet), lastOp'.record)]_vars

\* C11: whatever is added, edited and deleted through the forms, every
\* stored Revenue and Expenditure record has Amount >= 0, every stored
\* Classification record has New Borns >= 0, Dead Count >= 0 and Weight >= 0,
\* and every record carries a creation timestamp.
C11_StoredRecordsValid ==
    /\ \A s \in FinSheets : \A i \in 1..Len(store[s]) :
          /\ store[s][i].Amount >= 0
          /\ Len(store[s][i].Date) = 2
    /\ \A i \in 1..Len(store["Classification"]) :
          /\ store["Classification"][i].NewBorns >= 0
          /\ store["Classification"][i].DeadCount >= 0
          /\ store["Classification"][i].Weight >= 0
          /\ Len(store["Classification"][i].Date) = 2

\* a saved edit has just gone through, with a financial and a
\* classification record on file
C11_Witness ==
    /\ lastOp.op = "edit" /\ lastOp.applied
    /\ \E s \in FinSheets : store[s] # <<>>
    /\ store["Classification"] # <<>>

\* C12: a saved edit of the record at an in-range index i leaves that
\* record's creation timestamp, the table's length, every other record of
\* the table and the other two tables as they were, puts the form's values
\* into record i, and clears the editing selection.
C12_EditFrame ==
    [][(lastOp'.op = "edit" /\ lastOp'.applied)
          => LET s == lastOp'.sheet
                 i == lastOp'.index + 1
             IN /\ editing.sheet = s /\ editing.index = i - 1
                /\ i \in 1..Len(store[s])
                /\ Len(store'[s]) = Len(store[s])
                /\ store'[s][i].Date = store[s][i].Date
                /\ \A j \in 1..Len(store[s]) : j # i => store'[s][j] = store[s][j]
                /\ \A t \in SheetNames : t # s => store'[t] = store[t]
                /\ IF s \in FinSheets
                   THEN /\ store'[s][i].Tag = lastOp'.record.Tag
                        /\ store'[s][i].Amount = lastOp'.record.Amount
                   ELSE /\ store'[s][i].Name = lastOp'.record.Name
                        /\ store'[s][i].Weight = lastOp'.record.Weight
                        /\ store'[s][i].NewBorns = lastOp'.record.NewBorns
                        /\ store'[s][i].DeadCount = lastOp'.record.DeadCount
                        /\ (lastOp'.record.Details # ""
                               => store'[s][i].Details = lastOp'.record.Details)
                /\ editing' = NotEditing]_vars

\* the second of two revenue records, entered on day 1 at 15, has been
\* saved at 40: its timestamp is still day 1, the first record is untouched
C12_Witness ==
    /\ lastOp.op = "edit" /\ lastOp.applied
    /\ lastOp.sheet = "Revenue" /\ lastOp.index = 1
    /\ editing = NotEditing
    /\ Len(store["Revenue"]) = 2
    /\ store["Revenue"][1] = [Tag |-> "Milk", Amount |-> 15, Date |-> <<2, 1>>]
    /\ store["Revenue"][2] = [Tag |-> "Milk", Amount |-> 40, Date |-> <<1, 0>>]

====
